---- MODULE Spec2Model ----
(***************************************************************************)
(* Model of the PDF rendering request pipeline of src/src/app.ts:          *)
(* the GET / (by-URL) and POST / (by-HTML) handlers, the header/footer     *)
(* image inlining done inside the GET job, getImageBase64, the preset      *)
(* table of src/src/pdf-options/presets/default.ts, and (from their        *)
(* documented interface) the preset lookup and the page pool the handlers  *)
(* call.                                                                   *)
(***************************************************************************)
EXTENDS Integers, Sequences, FiniteSets, TLC

\* ------------------------------------------------------------------ bounds
MaxReqs == 2          \* requests that arrive in one behaviour
PagesNum == 1         \* pagesNum handed to hcPages (configuration value)

Reqs == 1..MaxReqs
Pages == 1..PagesNum

\* ------------------------------------------------------------- HTML values
\* A string holding HTML is a record: present = FALSE is undefined/null,
\* doc = TRUE is a serialized whole document (<html><head></head><body>..),
\* nodes are the text and img elements in document order.
Undefined == [present |-> FALSE, doc |-> FALSE, nodes |-> <<>>]
EmptyString == [present |-> TRUE, doc |-> FALSE, nodes |-> <<>>]
Str(ns) == [present |-> TRUE, doc |-> FALSE, nodes |-> ns]

NoSrc == [kind |-> "none", url |-> "", payload |-> <<>>]
Remote(u) == [kind |-> "url", url |-> u, payload |-> <<>>]
DataUri(p) == [kind |-> "data", url |-> "image/png;base64", payload |-> p]
Text == [tag |-> "text", src |-> NoSrc]
Img(s) == [tag |-> "img", src |-> s]

\* JavaScript truthiness of a string-or-undefined value: `x ?? false`
\* followed by `if (x)`, and `!x`.
Truthy(s) == s.present /\ (s.doc \/ s.nodes # <<>>)

\* ------------------------------------------------------------------ base64
ImageUrls == {"u1", "u2"}
\* the bytes the image servers answer with
ImageBytes(u) == IF u = "u1" THEN <<137, 80>> ELSE <<255, 216, 255, 224>>

Pad == 64
RECURSIVE Base64(_)
Base64(bytes) ==
  IF bytes = <<>> THEN <<>>
  ELSE IF Len(bytes) = 1 THEN
    <<bytes[1] \div 4, (bytes[1] % 4) * 16, Pad, Pad>>
  ELSE IF Len(bytes) = 2 THEN
    <<bytes[1] \div 4, (bytes[1] % 4) * 16 + bytes[2] \div 16,
      (bytes[2] % 16) * 4, Pad>>
  ELSE
    <<bytes[1] \div 4, (bytes[1] % 4) * 16 + bytes[2] \div 16,
      (bytes[2] % 16) * 4 + bytes[3] \div 64, bytes[3] % 64>>
    \o Base64(SubSeq(bytes, 4, Len(bytes)))

\* (variant: the last byte of the response is lost)
getImageBase64DropsLastByte(u) ==
  Base64(SubSeq(ImageBytes(u), 1, Len(ImageBytes(u)) - 1))
\* getImageBase64 on a successful axios.get
getImageBase64(u) == Base64(ImageBytes(u))

\* ----------------------------------------------------------------- cheerio
\* cheerio.load(html): the parsed document, as its body's nodes
CheerioLoad(s) == s.nodes
\* $('img'): the positions of the img elements, in document order
ImgElements(dom) == {i \in 1..Len(dom) : dom[i].tag = "img"}
FirstImg(dom) == CHOOSE i \in ImgElements(dom) : \A j \in ImgElements(dom) : i <= j
\* imgElement.attr('src'): the attribute of the first matched element
AttrGet(dom) == dom[FirstImg(dom)].src
\* (variant: only the first matched element is rewritten)
AttrSetFirstOnly(dom, v) ==
  [i \in 1..Len(dom) |-> IF i = FirstImg(dom) THEN Img(v) ELSE dom[i]]
\* imgElement.attr('src', v): sets the attribute on every matched element
AttrSet(dom, v) ==
  [i \in 1..Len(dom) |-> IF dom[i].tag = "img" THEN Img(v) ELSE dom[i]]
\* $.html(): the whole document, serialized
Html(dom) == [present |-> TRUE, doc |-> TRUE, nodes |-> dom]

\* whether a template still refers to a remote image
HasRemoteImg(s) ==
  \E i \in 1..Len(s.nodes) : s.nodes[i].tag = "img" /\ s.nodes[i].src.kind = "url"

\* ------------------------------------------------------------ preset table
Absent == "<absent>"

Margin(t, b, l, r) == [top |-> t, bottom |-> b, left |-> l, right |-> r]
defaultMargin == Margin("config", "config", "config", "config")
\* landscape is "undefined" where the preset does not set it; a
\* displayHeaderFooter of FALSE stands for the field not being set (the
\* renderer reads an unset field as false).
Options(f, l, m, d) ==
  [format |-> f, landscape |-> l, margin |-> m, printBackground |-> TRUE,
   displayHeaderFooter |-> d, headerTemplate |-> Undefined,
   footerTemplate |-> Undefined]

PresetPDFOptions ==
  [DEFAULT |-> Options("config", "config", defaultMargin, FALSE),
   A4 |-> Options("a4", "undefined", defaultMargin, FALSE),
   A3 |-> Options("a3", "undefined", defaultMargin, FALSE),
   A4L |-> Options("a4", "true", defaultMargin, FALSE),
   A3L |-> Options("a3", "true", defaultMargin, FALSE),
   nomargin |-> Options("a4", "false", Margin("0mm", "0mm", "0mm", "0mm"), FALSE),
   bottommargin |-> Options("a4", "false", Margin("0mm", "0.5cm", "0mm", "0mm"), FALSE),
   landscape |-> Options("a4", "true", Margin("0mm", "0mm", "0mm", "0mm"), FALSE),
   A4headerfooter |-> Options("a4", "undefined",
                              Margin("40mm", "30mm", "0.5cm", "0.5cm"), TRUE)]

PresetNames == DOMAIN PresetPDFOptions
defaultPresetPdfOptionsName == "DEFAULT"

\* ------------------------------------------------------------------- state
VARIABLES
  preset,          \* the preset registry held by the pdf-options plugin
  unknownPreset,   \* what the registry does with a name it does not hold
  readyPages,      \* the pool's idle pages
  req              \* the requests: inputs, handler position, locals, reply

vars == <<preset, unknownPreset, readyPages, req>>

NoReply == [error |-> "", url |-> Absent, pdf |-> FALSE, noCache |-> FALSE,
            caught |-> FALSE]

NoRequest ==
  [kind |-> "none", pc |-> "idle",
   url |-> Absent, hasBody |-> FALSE, html |-> Absent, pdf_option |-> Absent,
   header |-> Undefined, footer |-> Undefined,
   pdfOptionsQuery |-> Absent, pdfOptions |-> Absent, dom |-> <<>>,
   page |-> 0, status |-> 0, reply |-> NoReply,
   called |-> FALSE, rendered |-> PresetPDFOptions.DEFAULT,
   leases |-> 0, navs |-> 0, pdfs |-> 0, headerFetches |-> 0,
   footerFetches |-> 0, fetched |-> Absent, waited |-> FALSE, thrown |-> "",
   navigated |-> FALSE]

Init ==
  /\ preset = PresetPDFOptions
  /\ unknownPreset \in {"throw", "default"}
  /\ readyPages = Pages
  /\ req = [r \in Reqs |-> NoRequest]

\* ------------------------------------------------------------ preset lookup
\* server.getPDFOptions(name): the registry's record for the name. The value
\* is a reference into the registry (a key of preset), so that what the
\* caller assigns to the returned object is assigned to the stored record.
Throws(name) == name \notin PresetNames /\ unknownPreset = "throw"
getPDFOptions(name) ==
  IF name \in PresetNames THEN name ELSE defaultPresetPdfOptionsName

\* pdfOptions.<field> = value, on the object a reference designates
Assign(reg, ref, field, value) == [reg EXCEPT ![ref][field] = value]

\* ------------------------------------------------------------------ inputs
TargetUrl == "http://target"
FText == Str(<<Text>>)
FImg == Str(<<Img(Remote("u1"))>>)
FTwoImgs == Str(<<Img(Remote("u1")), Text, Img(Remote("u2"))>>)
FNoSrcFirst == Str(<<Img(NoSrc), Img(Remote("u2"))>>)
Fragments == {FText, FImg, FTwoImgs, FNoSrcFirst}
OptionNames == {Absent, "A4headerfooter", "nosuch"}

Templates == {Undefined, EmptyString} \cup Fragments
Urls == {Absent, "", TargetUrl}

NoBody ==
  [hasBody |-> FALSE, html |-> Absent, pdf_option |-> Absent,
   header |-> Undefined, footer |-> Undefined]
PostBodies ==
  {NoBody} \cup
  [hasBody : {TRUE}, html : {Absent, "", "<p>hi</p>"}, pdf_option : OptionNames,
   header : Templates, footer : Templates]

\* ---------------------------------------------------------------- replies
\* the handler has replied: its locals are gone, the reply and the counts
\* of what it did remain
Replied(rq, code, body) ==
  [NoRequest EXCEPT !.kind = rq.kind, !.pc = "done", !.url = rq.url,
                    !.hasBody = rq.hasBody, !.html = rq.html,
                    !.status = code, !.reply = body, !.waited = rq.waited,
                    !.thrown = rq.thrown,
                    !.leases = rq.leases, !.navs = rq.navs, !.pdfs = rq.pdfs,
                    !.headerFetches = rq.headerFetches,
                    !.footerFetches = rq.footerFetches]

\* reply.code(400).send({ error: ... })
Reply400(rq, msg) ==
  Replied(rq, 400, [NoReply EXCEPT !.error = msg, !.caught = TRUE])

\* reply.headers(createPDFHttpHeader(buffer)); reply.send(buffer)
SendPdf(rq) ==
  Replied(rq, 200, [NoReply EXCEPT !.pdf = TRUE, !.noCache = TRUE])

\* (variant: the catch answers without the url)
GetCatchNoUrl(rq, err) ==
  Replied(rq, 500, [NoReply EXCEPT !.error = err, !.caught = TRUE])
\* GET /: catch (error) { reply.code(500).send({ error, url }) }
GetCatch(rq, err) ==
  Replied(rq, 500, [NoReply EXCEPT !.error = err, !.url = rq.url, !.caught = TRUE])

\* POST /: catch (error) { reply.code(500).send({ error }) }
PostCatch(rq, err) ==
  Replied(rq, 500, [NoReply EXCEPT !.error = err, !.caught = TRUE])

\* an error thrown by the handler outside its try block: the handler's
\* promise rejects and the framework's error handler answers
Escapes(rq, err) ==
  Replied(rq, 500, [NoReply EXCEPT !.error = err, !.caught = FALSE])

\* (variant: a failed job is submitted again)
CatchRetries(rq, err) == [rq EXCEPT !.pc = "queued", !.page = 0, !.dom = <<>>]
Catch(rq, err) == IF rq.kind = "GET" THEN GetCatch(rq, err) ELSE PostCatch(rq, err)

\* -------------------------------------------------------------------- pool
\* runOnPage: callers queue while every page is busy, none is turned away;
\* an idle page is taken for the job (pages are interchangeable; the lowest
\* idle one is taken) and put back when the job settles.
\* (variant: a caller that finds no idle page is turned away)
RejectsWhenBusy(ready) == ready = {}
Rejects(ready) == FALSE
LeasePage(ready) == CHOOSE p \in ready : \A o \in ready : p <= o
\* (variant: the page is not put back)
ReleaseNothing(ready, p) == ready
ReleasePage(ready, p) == ready \cup {p}

\* ----------------------------------------------------------- GET / job body
\* return await page.pdf(pdfOptions): the renderer reads the options object
\* as it is at the call
CallPdf(reg, rq) ==
  [preset |-> reg,
   rq |-> [rq EXCEPT !.pc = "pdf", !.dom = <<>>, !.fetched = Absent, !.called = TRUE,
                     !.rendered = reg[rq.pdfOptions], !.pdfs = @ + 1]]

\* await getImageBase64(imgUrl): axios.get is issued, the job suspends
CallFetch(reg, rq, dom, at) ==
  [preset |-> reg,
   rq |-> [rq EXCEPT !.pc = at, !.dom = dom, !.fetched = AttrGet(dom).url,
                     !.headerFetches = IF at = "headerFetch" THEN @ + 1 ELSE @,
                     !.footerFetches = IF at = "footerFetch" THEN @ + 1 ELSE @]]

NeedsFetch(dom) == ImgElements(dom) # {} /\ AttrGet(dom).kind # "none"

\* if (footer) { ... }  up to the next await
FooterSection(reg, rq) ==
  IF Truthy(rq.footer)
  THEN LET reg1 == Assign(reg, rq.pdfOptions, "displayHeaderFooter", TRUE)
           dom == CheerioLoad(rq.footer)
       IN IF NeedsFetch(dom)
          THEN CallFetch(reg1, rq, dom, "footerFetch")
          ELSE CallPdf(Assign(reg1, rq.pdfOptions, "footerTemplate", Html(dom)), rq)
  ELSE CallPdf(reg, rq)

\* if (header) { ... }  up to the next await
HeaderSection(reg, rq) ==
  IF Truthy(rq.header)
  THEN LET reg1 == Assign(reg, rq.pdfOptions, "displayHeaderFooter", TRUE)
           dom == CheerioLoad(rq.header)
       IN IF NeedsFetch(dom)
          THEN CallFetch(reg1, rq, dom, "headerFetch")
          ELSE FooterSection(Assign(reg1, rq.pdfOptions, "headerTemplate", Html(dom)), rq)
  ELSE FooterSection(reg, rq)

\* imgElement.attr('src', `data:image/png;base64,${imgBase64}`)
Inlined(dom) == AttrSet(dom, DataUri(getImageBase64(AttrGet(dom).url)))

\* ----------------------------------------------------------------- actions
\* (variant: only a missing field is refused, an empty one passes)
FalsyMissingOnly(x) == x = Absent
\* !x for a string-or-undefined request field
Falsy(x) == x \in {Absent, ""}

\* requests are numbered in their order of arrival
Arrives(r) == req[r].pc = "idle" /\ \A o \in Reqs : o < r => req[o].pc # "idle"

\* server.runOnPage(job) called by a handler
RunOnPage(rq) ==
  IF Rejects(readyPages) THEN Catch(rq, "PoolBusy")
  ELSE [rq EXCEPT !.pc = "queued", !.waited = (readyPages = {})]

\* GET /, lines 119-129: validation, preset name, job submitted. The query
\* is fixed when the request arrives; each field enters the model where the
\* handler reads it.
GetHandler(url, opt) ==
  LET rq == [NoRequest EXCEPT !.kind = "GET", !.url = url]
  IN IF Falsy(url) THEN Reply400(rq, "url is required")
     ELSE RunOnPage([rq EXCEPT !.pdf_option = opt, !.pdfOptionsQuery =
                        IF opt = Absent THEN defaultPresetPdfOptionsName ELSE opt])

GetRequest(r, url, opt) ==
  /\ Arrives(r)
  /\ req' = [req EXCEPT ![r] = GetHandler(url, opt)]
  /\ UNCHANGED <<preset, unknownPreset, readyPages>>

\* POST /, lines 181-205, after validation: the options are looked up and
\* the header and footer assigned before the job is submitted
PostOptions(reg, rq) ==
  LET ref == getPDFOptions(rq.pdfOptionsQuery)
      reg1 == IF Truthy(rq.header)
              THEN Assign(Assign(reg, ref, "displayHeaderFooter", TRUE),
                          ref, "headerTemplate", rq.header)
              ELSE reg
      reg2 == IF Truthy(rq.footer)
              THEN Assign(Assign(reg1, ref, "displayHeaderFooter", TRUE),
                          ref, "footerTemplate", rq.footer)
              ELSE reg1
  IN [preset |-> reg2, rq |-> RunOnPage([rq EXCEPT !.pdfOptions = ref])]

PostHandler(reg, b) ==
  LET rq == [NoRequest EXCEPT !.kind = "POST", !.hasBody = b.hasBody,
                              !.html = b.html, !.pdf_option = b.pdf_option,
                              !.header = b.header, !.footer = b.footer,
                              !.pdfOptionsQuery =
                                 IF b.pdf_option = Absent
                                 THEN defaultPresetPdfOptionsName
                                 ELSE b.pdf_option]
  IN IF ~b.hasBody
     THEN [preset |-> reg, rq |-> Reply400(rq, "request body is empty")]
     ELSE IF Falsy(b.html)
     THEN [preset |-> reg, rq |-> Reply400(rq, "html is required")]
     ELSE IF Throws(rq.pdfOptionsQuery)
     THEN [preset |-> reg,
           rq |-> Escapes([rq EXCEPT !.thrown = "PDFOptions not found"],
                          "PDFOptions not found")]
     ELSE PostOptions(reg, rq)

PostRequest(r, b) ==
  /\ Arrives(r)
  /\ LET n == PostHandler(preset, b)
     IN /\ preset' = n.preset
        /\ req' = [req EXCEPT ![r] = n.rq]
  /\ UNCHANGED <<unknownPreset, readyPages>>

\* the pool hands a page to a queued job; the job's first statement runs:
\* page.goto(url) or page.setContent(html, ...)
Lease(r) ==
  /\ req[r].pc = "queued"
  /\ readyPages # {}
  /\ LET p == LeasePage(readyPages)
     IN /\ readyPages' = readyPages \ {p}
        /\ req' = [req EXCEPT ![r] =
                     [@ EXCEPT !.page = p, !.leases = @ + 1, !.navs = @ + 1,
                               !.pc = IF req[r].kind = "GET" THEN "goto"
                                      ELSE "setContent"]]
  /\ UNCHANGED <<preset, unknownPreset>>

\* the job settles with an error: the page goes back, the handler's catch
\* answers
JobFails(r, err) ==
  /\ readyPages' = ReleasePage(readyPages, req[r].page)
  /\ req' = [req EXCEPT ![r] = Catch([@ EXCEPT !.thrown = err], err)]
  /\ UNCHANGED <<preset, unknownPreset>>

\* the job goes on to its next await
JobContinues(r, n) ==
  /\ preset' = n.preset
  /\ req' = [req EXCEPT ![r] = n.rq]
  /\ UNCHANGED <<unknownPreset, readyPages>>

\* (variant: the job goes on whatever the navigation's outcome)
NavIgnored(outcome) == TRUE
\* await page.goto / await page.setContent: the job goes on only when the
\* awaited call has succeeded
NavSucceeded(outcome) == outcome = "ok"

\* page.goto settles; lines 131-168 run up to the next await
GotoDone(r, outcome, h, f) ==
  /\ req[r].pc = "goto"
  /\ IF ~NavSucceeded(outcome) THEN JobFails(r, outcome)
     ELSE IF Throws(req[r].pdfOptionsQuery) THEN JobFails(r, "PDFOptions not found")
     ELSE JobContinues(r, HeaderSection(preset,
             [req[r] EXCEPT !.pdfOptions = getPDFOptions(req[r].pdfOptionsQuery),
                            !.header = h, !.footer = f,
                            !.navigated = (outcome = "ok")]))

\* getImageBase64 for the header settles; lines 146-168 run up to the next await
HeaderFetchDone(r, outcome) ==
  /\ req[r].pc = "headerFetch"
  /\ IF outcome # "ok" THEN JobFails(r, outcome)
     ELSE JobContinues(r, FooterSection(
             Assign(preset, req[r].pdfOptions, "headerTemplate",
                    Html(Inlined(req[r].dom))),
             [req[r] EXCEPT !.dom = <<>>]))

\* getImageBase64 for the footer settles; lines 162-168 run
FooterFetchDone(r, outcome) ==
  /\ req[r].pc = "footerFetch"
  /\ IF outcome # "ok" THEN JobFails(r, outcome)
     ELSE JobContinues(r, CallPdf(
             Assign(preset, req[r].pdfOptions, "footerTemplate",
                    Html(Inlined(req[r].dom))),
             [req[r] EXCEPT !.dom = <<>>]))

\* page.setContent settles; line 210 runs
SetContentDone(r, outcome) ==
  /\ req[r].pc = "setContent"
  /\ IF ~NavSucceeded(outcome) THEN JobFails(r, outcome)
     ELSE JobContinues(r, CallPdf(preset,
             [req[r] EXCEPT !.navigated = (outcome = "ok")]))

\* page.pdf settles: the job returns the buffer, the page goes back and the
\* handler sends the PDF, or the job fails
PdfDone(r, outcome) ==
  /\ req[r].pc = "pdf"
  /\ IF outcome # "ok" THEN JobFails(r, outcome)
     ELSE /\ readyPages' = ReleasePage(readyPages, req[r].page)
          /\ req' = [req EXCEPT ![r] = SendPdf(@)]
          /\ UNCHANGED <<preset, unknownPreset>>

NavOutcomes == {"ok", "NavigationError", "TimeoutError"}
FetchOutcomes == {"ok", "AxiosError"}
PdfOutcomes == {"ok", "PdfError", "TimeoutError"}

Next ==
  \/ \E r \in Reqs, u \in Urls, o \in OptionNames : GetRequest(r, u, o)
  \/ \E r \in Reqs, b \in PostBodies : PostRequest(r, b)
  \/ \E r \in Reqs : Lease(r)
  \/ \E r \in Reqs, o \in NavOutcomes, h \in Templates, f \in Templates :
        GotoDone(r, o, h, f)
  \/ \E r \in Reqs, o \in FetchOutcomes : HeaderFetchDone(r, o)
  \/ \E r \in Reqs, o \in FetchOutcomes : FooterFetchDone(r, o)
  \/ \E r \in Reqs, o \in NavOutcomes : SetContentDone(r, o)
  \/ \E r \in Reqs, o \in PdfOutcomes : PdfDone(r, o)

Spec == Init /\ [][Next]_vars

\* ------------------------------------------------- scheduling and liveness
\* The same handlers with one request shape per entry point. Every awaited
\* operation settles and the pool serves a waiting job once a page is idle.
JobStep(r) ==
  \/ \E o \in NavOutcomes, h \in {Undefined, FImg} : GotoDone(r, o, h, Undefined)
  \/ \E o \in FetchOutcomes : HeaderFetchDone(r, o)
  \/ \E o \in NavOutcomes : SetContentDone(r, o)
  \/ \E o \in PdfOutcomes : PdfDone(r, o)

NextLive ==
  \/ \E r \in Reqs : GetRequest(r, TargetUrl, Absent)
  \/ \E r \in Reqs : PostRequest(r, [NoBody EXCEPT !.hasBody = TRUE, !.html = "<p>hi</p>"])
  \/ \E r \in Reqs : Lease(r)
  \/ \E r \in Reqs : JobStep(r)

LiveSpec ==
  /\ Init
  /\ [][NextLive]_vars
  /\ \A r \in Reqs : WF_vars(Lease(r)) /\ WF_vars(JobStep(r))

\* ------------------------------------------------------------- properties
InJob(rq) == rq.pc \in {"goto", "headerFetch", "footerFetch", "setContent", "pdf"}
InFlight(rq) == rq.pc = "queued" \/ InJob(rq)
Fetches(rq) == rq.headerFetches + rq.footerFetches

\* C1: every record of the preset registry keeps the value it was loaded
\* with, whatever requests have been handled.
C1_RegistryNeverMutated == preset = PresetPDFOptions

\* The template a request's own header or footer field stands for: the
\* inlined fragment in the by-URL path, the literal in the by-HTML path.
OwnTemplate(rq, t) ==
  IF rq.kind = "POST" THEN t
  ELSE Html(IF NeedsFetch(CheerioLoad(t)) THEN Inlined(CheerioLoad(t))
            ELSE CheerioLoad(t))

\* The options a request's own fields and the loaded table determine.
OwnOptions(rq) ==
  LET base == PresetPDFOptions[getPDFOptions(rq.pdfOptionsQuery)]
  IN [base EXCEPT
        !.displayHeaderFooter = @ \/ Truthy(rq.header) \/ Truthy(rq.footer),
        !.headerTemplate = IF Truthy(rq.header) THEN OwnTemplate(rq, rq.header) ELSE @,
        !.footerTemplate = IF Truthy(rq.footer) THEN OwnTemplate(rq, rq.footer) ELSE @]

\* C2: the options handed to page.pdf for a request are those its own
\* pdf_option, header and footer determine from the loaded preset table; a
\* request without header and footer is rendered with the preset as loaded.
C2_RequestsIsolated ==
  \A r \in Reqs : req[r].called => req[r].rendered = OwnOptions(req[r])

\* a request that fails validation
Invalid(rq) ==
  \/ rq.kind = "GET" /\ rq.url \in {Absent, ""}
  \/ rq.kind = "POST" /\ (~rq.hasBody \/ rq.html \in {Absent, ""})

\* C3: a request that fails validation is answered 400 and nothing is done
\* for it: it is never submitted to the pool, leases no page, navigates
\* nowhere, fetches no image and renders no PDF.
C3_InvalidAnswered400 ==
  \A r \in Reqs :
    /\ Invalid(req[r]) =>
         /\ req[r].pc = "done" /\ req[r].status = 400
         /\ req[r].leases = 0 /\ req[r].navs = 0 /\ req[r].pdfs = 0
         /\ Fetches(req[r]) = 0 /\ ~req[r].waited
    /\ req[r].status = 400 => Invalid(req[r])

C3_Witness ==
  /\ \E r \in Reqs : req[r].kind = "GET" /\ req[r].url = "" /\ req[r].status = 400
  /\ \E r \in Reqs : req[r].kind = "POST" /\ req[r].hasBody /\ req[r].html = ""
                     /\ req[r].status = 400

\* C4: no options record handed to page.pdf carries a header or footer
\* template with an image element whose source is still a remote URL.
C4_TemplatesResolved ==
  \A r \in Reqs :
    req[r].called => /\ ~HasRemoteImg(req[r].rendered.headerTemplate)
                     /\ ~HasRemoteImg(req[r].rendered.footerTemplate)

\* C5: in the by-URL path a request that passed validation and whose job
\* failed at any step is answered 500 with its url in the body and no PDF;
\* a 200 with PDF bytes is sent only when nothing failed.
C5_GetFailureIs500WithUrl ==
  \A r \in Reqs :
    req[r].kind = "GET" /\ req[r].pc = "done" =>
      /\ req[r].thrown # "" =>
           /\ req[r].status = 500 /\ req[r].reply.url = req[r].url
           /\ req[r].reply.url = TargetUrl
           /\ req[r].reply.error = req[r].thrown /\ ~req[r].reply.pdf
      /\ req[r].reply.pdf => req[r].status = 200 /\ req[r].thrown = ""
      /\ req[r].status = 200 => req[r].reply.pdf /\ req[r].pdfs = 1

C5_Witness ==
  /\ \E r \in Reqs : req[r].kind = "GET" /\ req[r].thrown = "AxiosError"
                     /\ req[r].status = 500
  /\ \E r \in Reqs : req[r].kind = "GET" /\ req[r].thrown = "PDFOptions not found"
                     /\ req[r].status = 500

\* C6: in the by-HTML path every failure after validation, a failure of the
\* preset lookup included, is caught by the handler's own try/catch and
\* answered by it with 500.
C6_PostFailureCaught ==
  \A r \in Reqs :
    req[r].kind = "POST" /\ req[r].pc = "done" /\ req[r].thrown # "" =>
      req[r].status = 500 /\ req[r].reply.caught

\* C7: in the by-URL path no image is fetched for a request once it has
\* leased a page or started to navigate.
C7_InliningBeforeJob ==
  \A r \in Reqs : Fetches(req[r]) > 0 => req[r].leases = 0 /\ req[r].navs = 0

\* C8: a page is out of the idle set exactly while a job holds it, no two
\* jobs hold the same page, and when no job is running every page is idle.
C8_PagesReturned ==
  /\ readyPages = Pages \ {req[r].page : r \in {o \in Reqs : InJob(req[o])}}
  /\ \A r, o \in Reqs : InJob(req[r]) /\ InJob(req[o]) /\ r # o => req[r].page # req[o].page
  /\ (\A r \in Reqs : ~InJob(req[r])) => readyPages = Pages

C8_Witness ==
  /\ readyPages = Pages
  /\ \E r \in Reqs : req[r].leases = 1 /\ req[r].thrown = "TimeoutError"
  /\ \E r \in Reqs : req[r].leases = 1 /\ req[r].status = 200

\* C9: a request that finds every page busy is queued: it is never answered
\* with an error of the pool's, its job starts only on a page that is idle
\* when it starts, and it is eventually answered.
C9_QueuedNotRejected ==
  /\ [](\A r \in Reqs : req[r].reply.error # "PoolBusy")
  /\ [][\A r \in Reqs : req[r].pc = "queued" /\ req'[r].pc # "queued" =>
          /\ req'[r].page \in readyPages
          /\ \A o \in Reqs : InJob(req[o]) => req[o].page # req'[r].page]_vars
  /\ \A r \in Reqs : (req[r].pc = "queued") ~> (req[r].pc = "done")

C9_Witness ==
  \E r \in Reqs : req[r].waited /\ req[r].leases = 1 /\ req[r].status = 200

\* C10: a by-URL header or footer without an image element costs no image
\* fetch, and the template handed to page.pdf is the fragment, serialized.
C10_NoImageNoFetch ==
  \A r \in Reqs :
    req[r].kind = "GET" /\ req[r].called =>
      /\ Truthy(req[r].header) /\ ImgElements(CheerioLoad(req[r].header)) = {} =>
           /\ req[r].headerFetches = 0
           /\ req[r].rendered.headerTemplate = Html(CheerioLoad(req[r].header))
      /\ Truthy(req[r].footer) /\ ImgElements(CheerioLoad(req[r].footer)) = {} =>
           /\ req[r].footerFetches = 0
           /\ req[r].rendered.footerTemplate = Html(CheerioLoad(req[r].footer))

\* the bytes a base64 payload stands for
RECURSIVE Base64Decode(_)
Base64Decode(p) ==
  IF Len(p) < 4 THEN <<>>
  ELSE LET b1 == p[1] * 4 + p[2] \div 16
           b2 == (p[2] % 16) * 16 + p[3] \div 4
           b3 == (p[3] % 4) * 64 + p[4]
       IN IF p[3] = Pad THEN <<b1>>
          ELSE IF p[4] = Pad THEN <<b1, b2>>
          ELSE <<b1, b2, b3>> \o Base64Decode(SubSeq(p, 5, Len(p)))

\* a template whose single image is the data URI of the bytes served at u
IsInlinedFrom(t, u) ==
  /\ t.present /\ t.doc
  /\ \A i \in ImgElements(t.nodes) :
       /\ t.nodes[i].src.kind = "data"
       /\ t.nodes[i].src.url = "image/png;base64"
       /\ Base64Decode(t.nodes[i].src.payload) = ImageBytes(u)

OneImage(dom) == Cardinality(ImgElements(dom)) = 1

\* what a settled image fetch of request r leaves: on success the template
\* t built from the fragment, on failure the fetch error and no template
FetchSettles(r, t) ==
  IF req'[r].pc # "done"
  THEN /\ IsInlinedFrom(t, AttrGet(req[r].dom).url)
       /\ Len(t.nodes) = Len(req[r].dom)
  ELSE /\ req'[r].thrown = "AxiosError" /\ req'[r].reply.error = "AxiosError"
       /\ req'[r].status = 500 /\ req'[r].pdfs = 0
       /\ preset' = preset

\* C11: when the fetch for a fragment with exactly one image element, whose
\* source is a URL, settles, the template produced carries that element with
\* the source data:image/png;base64,<payload>, <payload> decoding to exactly
\* the bytes served at that URL; when the fetch fails, the fetch error is the
\* job's error and no template is assigned.
C11_OneImageInlined ==
  [][\A r \in Reqs :
       /\ req[r].pc = "headerFetch" /\ req'[r].pc # "headerFetch"
          /\ OneImage(req[r].dom) =>
            FetchSettles(r, preset'[req[r].pdfOptions].headerTemplate)
       /\ req[r].pc = "footerFetch" /\ req'[r].pc # "footerFetch"
          /\ OneImage(req[r].dom) =>
            FetchSettles(r, req'[r].rendered.footerTemplate)]_vars

C11_Witness ==
  \E r \in Reqs :
    /\ req[r].kind = "GET" /\ req[r].called /\ req[r].header = FImg
    /\ req[r].headerFetches = 1
    /\ IsInlinedFrom(req[r].rendered.headerTemplate, "u1")
    /\ ImgElements(req[r].rendered.headerTemplate.nodes) # {}

\* C12: in the by-URL path, for header and footer independently: a field
\* that is present and non-empty makes the options handed to page.pdf carry
\* displayHeaderFooter = true and the inlined fragment as its template; for
\* a field that is absent or empty nothing is fetched and the template and
\* displayHeaderFooter are the ones the preset defines.
C12_GetHeaderFooterOverlay ==
  \A r \in Reqs :
    req[r].kind = "GET" /\ req[r].called =>
      LET base == PresetPDFOptions[getPDFOptions(req[r].pdfOptionsQuery)]
          o == req[r].rendered
      IN /\ IF Truthy(req[r].header)
            THEN /\ o.displayHeaderFooter
                 /\ o.headerTemplate = OwnTemplate(req[r], req[r].header)
            ELSE /\ req[r].headerFetches = 0
                 /\ o.headerTemplate = base.headerTemplate
         /\ IF Truthy(req[r].footer)
            THEN /\ o.displayHeaderFooter
                 /\ o.footerTemplate = OwnTemplate(req[r], req[r].footer)
            ELSE /\ req[r].footerFetches = 0
                 /\ o.footerTemplate = base.footerTemplate
         /\ ~Truthy(req[r].header) /\ ~Truthy(req[r].footer) =>
              o.displayHeaderFooter = base.displayHeaderFooter

\* C13: in the by-HTML path no image is fetched, and a supplied header or
\* footer makes the options handed to page.pdf carry displayHeaderFooter =
\* true and exactly the supplied string as template.
C13_PostLiteralTemplates ==
  \A r \in Reqs :
    req[r].kind = "POST" =>
      /\ Fetches(req[r]) = 0
      /\ req[r].called /\ Truthy(req[r].header) =>
           /\ req[r].rendered.displayHeaderFooter
           /\ req[r].rendered.headerTemplate = req[r].header
      /\ req[r].called /\ Truthy(req[r].footer) =>
           /\ req[r].rendered.displayHeaderFooter
           /\ req[r].rendered.footerTemplate = req[r].footer

\* C14: nothing is retried: for one request a page is leased, a navigation
\* (or content-set) started, each of the header and footer images fetched and
\* a PDF rendered at most once; a request whose job has failed has been
\* answered, and an answered request takes no further step.
C14_NoRetries ==
  /\ [](\A r \in Reqs :
          /\ req[r].leases <= 1 /\ req[r].navs <= 1 /\ req[r].pdfs <= 1
          /\ req[r].headerFetches <= 1 /\ req[r].footerFetches <= 1
          /\ req[r].thrown # "" => req[r].pc = "done")
  /\ [][\A r \in Reqs : req[r].pc = "done" => req'[r] = req[r]]_vars

C14_Witness ==
  \E r \in Reqs :
    /\ req[r].pc = "done" /\ req[r].thrown = "AxiosError"
    /\ req[r].leases = 1 /\ req[r].navs = 1 /\ req[r].headerFetches = 1
    /\ req[r].footerFetches = 1 /\ req[r].pdfs = 0

\* C15: in a by-URL job the options are looked up and the images fetched
\* only after page.goto has succeeded, page.pdf is called only after that, on
\* the page the job leased, and the 200 with the PDF is sent only after
\* page.pdf has succeeded.
C15_GetStepOrder ==
  [][\A r \in Reqs :
       req'[r].kind = "GET" =>
         /\ req'[r].pdfOptions # req[r].pdfOptions /\ req'[r].pc # "done" =>
              req[r].pc = "goto" /\ req'[r].navigated
         /\ Fetches(req'[r]) > Fetches(req[r]) =>
              req'[r].navigated /\ req'[r].pdfOptions \in PresetNames
         /\ req'[r].pdfs > req[r].pdfs =>
              /\ req'[r].navigated /\ req[r].navs = 1 /\ req[r].leases = 1
              /\ req'[r].pdfOptions \in PresetNames
              /\ req[r].page \in Pages /\ req'[r].page = req[r].page
              /\ req[r].page \notin readyPages'
         /\ req'[r].status = 200 /\ req[r].status # 200 =>
              /\ req[r].pc = "pdf" /\ req[r].pdfs = 1 /\ req[r].navigated
              /\ req'[r].reply.pdf /\ req'[r].thrown = ""]_vars

C15_Witness ==
  \E r \in Reqs :
    /\ req[r].kind = "GET" /\ req[r].status = 200 /\ req[r].reply.pdf
    /\ req[r].navs = 1 /\ req[r].pdfs = 1 /\ Fetches(req[r]) = 2

\* a fragment with image elements of which the first has no source
FirstHasNoSrc(t) ==
  /\ Truthy(t) /\ ImgElements(CheerioLoad(t)) # {}
  /\ AttrGet(CheerioLoad(t)).kind = "none"

\* every image element of template t carries the data URI of the bytes
\* served at u, and nothing else of the document dom has changed
AllImagesFrom(t, dom, u) ==
  /\ t.present /\ t.doc /\ Len(t.nodes) = Len(dom)
  /\ \A i \in 1..Len(dom) :
       IF dom[i].tag = "img"
       THEN t.nodes[i] = Img(DataUri(Base64(ImageBytes(u))))
       ELSE t.nodes[i] = dom[i]

\* C16: for a fragment with several image elements one fetch is made, for
\* the source of the first image element, and the template produced carries
\* that one image's data URI as the source of every image element; when the
\* first image element has no source nothing is fetched and the fragment is
\* serialized with its sources as they were.
C16_FirstImageForAll ==
  [][\A r \in Reqs :
       /\ req'[r].pc = "headerFetch" /\ req[r].pc # "headerFetch" =>
            /\ req'[r].headerFetches = 1
            /\ req'[r].fetched = AttrGet(CheerioLoad(req'[r].header)).url
       /\ req'[r].pc = "footerFetch" /\ req[r].pc # "footerFetch" =>
            /\ req'[r].footerFetches = 1
            /\ req'[r].fetched = AttrGet(CheerioLoad(req'[r].footer)).url
       /\ req[r].pc = "headerFetch" /\ req'[r].pc \notin {"headerFetch", "done"} =>
            /\ AllImagesFrom(preset'[req[r].pdfOptions].headerTemplate,
                             CheerioLoad(req[r].header), req[r].fetched)
            /\ req'[r].headerFetches = 1
       /\ req[r].pc = "footerFetch" /\ req'[r].pc \notin {"footerFetch", "done"} =>
            /\ AllImagesFrom(req'[r].rendered.footerTemplate,
                             CheerioLoad(req[r].footer), req[r].fetched)
            /\ req'[r].footerFetches = 1
       /\ req[r].pc = "goto" /\ req'[r].pc \notin {"goto", "done"}
          /\ FirstHasNoSrc(req'[r].header) =>
            /\ req'[r].headerFetches = 0 /\ req'[r].pc # "headerFetch"
            /\ preset'[req'[r].pdfOptions].headerTemplate
                 = Html(CheerioLoad(req'[r].header))
       /\ req[r].pc # "pdf" /\ req'[r].pc = "pdf" /\ req'[r].kind = "GET"
          /\ FirstHasNoSrc(req'[r].footer) =>
            /\ req'[r].footerFetches = 0 /\ req[r].pc # "footerFetch"
            /\ req'[r].rendered.footerTemplate = Html(CheerioLoad(req'[r].footer))]_vars

C16_Witness ==
  \E r \in Reqs :
    /\ req[r].kind = "GET" /\ req[r].called
    /\ req[r].header = FTwoImgs /\ req[r].footer = FNoSrcFirst
    /\ req[r].headerFetches = 1 /\ req[r].footerFetches = 0
    /\ AllImagesFrom(req[r].rendered.headerTemplate, CheerioLoad(FTwoImgs), "u1")
    /\ HasRemoteImg(req[r].rendered.footerTemplate)

====
